---- MODULE Spec2Model ----
(***************************************************************************)
(* Model of stackexchange/tables.py: the Table class (schema descriptor,   *)
(* DDL generation, row parsing) and Table.insert_from_xml, the streaming   *)
(* loader that feeds a lazily parsed XML dump into an sqlite3 connection.  *)
(***************************************************************************)
EXTENDS Integers, Sequences, FiniteSets, TLC

(***************************************************************************)
(* Bounds of the model.                                                    *)
(***************************************************************************)
\* Largest number of lines after the two framing lines of a source file.
MaxBodyLines == 3
\* Largest number of insert_from_xml calls on one connection.
MaxLoads == 2
\* Largest number of consecutive create_if_not_exists calls between loads.
MaxDdlCalls == 2
\* Largest number of attributes of an element handed to parse_row by itself.
MaxAttribs == 2

(***************************************************************************)
(* Python values.  A value is tagged with its type so that an int, a str   *)
(* and None can sit in the same row.  A str is a sequence of characters.   *)
(***************************************************************************)
None == [none |-> TRUE]
PyInt(n) == [int |-> n]
PyStr(s) == [str |-> s]

(***************************************************************************)
(* The Table objects of the module (lines 88-143).  A schema is the        *)
(* OrderedDict as a sequence of entries col -> (attr, typ); attr is the    *)
(* name of an XML attribute or None, typ is the storage type string split  *)
(* into its words.                                                         *)
(***************************************************************************)
Attr(n) == [name |-> n]
Col(c, a, t) == [col |-> c, attr |-> a, typ |-> t]

sites ==
    [name |-> "sites",
     schema |-> << Col("id", Attr("Id"), <<"INTEGER", "PRIMARY", "KEY">>),
                   Col("url", Attr("Url"), <<"TEXT">>),
                   Col("tiny_name", Attr("TinyName"), <<"TEXT">>),
                   Col("long_name", Attr("LongName"), <<"TEXT">>),
                   Col("name", Attr("Name"), <<"TEXT">>),
                   Col("parent_id", Attr("ParentId"), <<"INTEGER">>),
                   Col("tagline", Attr("Tagline"), <<"TEXT">>),
                   Col("badge_icon_url", Attr("BadgeIconUrl"), <<"TEXT">>) >>,
     constraints |-> << >>]

posts ==
    [name |-> "posts",
     schema |-> << Col("id", Attr("Id"), <<"INTEGER">>),
                   Col("site_id", None, <<"INTEGER">>),
                   Col("post_type", Attr("PostTypeId"), <<"INTEGER", "NOT", "NULL">>),
                   Col("accepted_answer_id", Attr("AcceptedAnswerId"), <<"INTEGER">>),
                   Col("creation_date", Attr("CreationDate"), <<"TEXT", "NOT", "NULL">>),
                   Col("score", Attr("Score"), <<"INTEGER", "NOT", "NULL">>),
                   Col("view_count", Attr("ViewCount"), <<"INTEGER">>),
                   Col("body", Attr("Body"), <<"TEXT">>),
                   Col("user_id", Attr("OwnerUserId"), <<"INTEGER">>),
                   Col("last_activity_date", Attr("LastActivityDate"), <<"TEXT">>),
                   Col("title", Attr("Title"), <<"TEXT">>),
                   Col("tags", Attr("Tags"), <<"TEXT">>),
                   Col("answer_count", Attr("AnswerCount"), <<"INTEGER">>),
                   Col("comment_count", Attr("CommentCount"), <<"INTEGER">>) >>,
     constraints |->
        << "PRIMARY KEY (id, site_id)",
           "FOREIGN KEY (site_id) REFERENCES sites (id)",
           "FOREIGN KEY (user_id, site_id) REFERENCES users (id, site_id)",
           "FOREIGN KEY (accepted_answer_id, site_id) REFERENCES posts (id, site_id)" >>]

users ==
    [name |-> "users",
     schema |-> << Col("id", Attr("Id"), <<"INTEGER">>),
                   Col("site_id", None, <<"INTEGER">>),
                   Col("reputation", Attr("Reputation"), <<"INTEGER", "NOT", "NULL">>),
                   Col("creation_date", Attr("CreationDate"), <<"TEXT">>),
                   Col("display_name", Attr("DisplayName"), <<"TEXT">>),
                   Col("url", Attr("WebsiteUrl"), <<"TEXT">>),
                   Col("location", Attr("Location"), <<"TEXT">>),
                   Col("about_me", Attr("AboutMe"), <<"TEXT">>),
                   Col("views", Attr("Views"), <<"INTEGER">>),
                   Col("profile_image", Attr("ProfileImageUrl"), <<"TEXT">>),
                   Col("account_id", Attr("AccountId"), <<"INTEGER">>),
                   Col("up_votes", Attr("UpVotes"), <<"INTEGER">>) >>,
     constraints |->
        << "PRIMARY KEY (id, site_id)",
           "FOREIGN KEY (site_id) REFERENCES sites (id)" >>]

Tables == { sites, posts, users }

\* The table the loads of this model work on.
self == sites

(***************************************************************************)
(* int(v) of a str (line 28): an optional sign followed by decimal digits; *)
(* anything else raises ValueError.                                        *)
(***************************************************************************)
DigitValue ==
    ("0" :> 0) @@ ("1" :> 1) @@ ("2" :> 2) @@ ("3" :> 3) @@ ("4" :> 4) @@
    ("5" :> 5) @@ ("6" :> 6) @@ ("7" :> 7) @@ ("8" :> 8) @@ ("9" :> 9)

Unsigned(s) == IF Len(s) > 0 /\ s[1] \in {"-", "+"} THEN Tail(s) ELSE s

int_raises(s) ==
    \/ Len(Unsigned(s)) = 0
    \/ \E i \in 1..Len(Unsigned(s)) : Unsigned(s)[i] \notin DOMAIN DigitValue

RECURSIVE Magnitude(_)
Magnitude(s) ==
    IF Len(s) = 0 THEN 0
    ELSE 10 * Magnitude(SubSeq(s, 1, Len(s) - 1)) + DigitValue[s[Len(s)]]

int(s) ==
    IF Len(s) > 0 /\ s[1] = "-" THEN 0 - Magnitude(Unsigned(s))
    ELSE Magnitude(Unsigned(s))

\* The test as typ == "INTEGER".
IsIntegerType_exact(typ) == typ = << "INTEGER" >>

\* typ.startswith("INTEGER") (line 27)
IsIntegerType(typ) == Len(typ) > 0 /\ typ[1] = "INTEGER"

(***************************************************************************)
(* Table.parse_row (lines 21-32).  attrib is the attribute dictionary of   *)
(* the element: a function from attribute names to strs.  The result is    *)
(* the OrderedDict: its items, (col, val) entries in insertion order.      *)
(***************************************************************************)
parse_row_raises(table, attrib) ==
    \E i \in 1..Len(table.schema) :
        /\ table.schema[i].attr # None
        /\ table.schema[i].attr.name \in DOMAIN attrib
        /\ IsIntegerType(table.schema[i].typ)
        /\ int_raises(attrib[table.schema[i].attr.name])

parse_value(entry, attrib) ==
    IF entry.attr # None /\ entry.attr.name \in DOMAIN attrib
    THEN IF IsIntegerType(entry.typ)
         THEN PyInt(int(attrib[entry.attr.name]))
         ELSE PyStr(attrib[entry.attr.name])
    ELSE None

parse_row(table, attrib) ==
    [items |-> [i \in 1..Len(table.schema) |->
        [col |-> table.schema[i].col, val |-> parse_value(table.schema[i], attrib)]]]

\* list(row.values()) (line 62)
values(row) == [i \in 1..Len(row.items) |-> row.items[i].val]

(***************************************************************************)
(* Source files.  A line of the file is its content followed by the line   *)
(* terminator; line.strip() (line 49) gives the content.  The content is   *)
(* the XML declaration, an opening tag, a closing tag or one self-closing  *)
(* element with its attributes.                                            *)
(***************************************************************************)
Line(content) == [text |-> content, nl |-> TRUE]
strip(line) == line.text

XmlDecl == [kind |-> "decl"]
OpenTag(n) == [kind |-> "open", name |-> n]
CloseTag(n) == [kind |-> "close", name |-> n]
Element(a) == [kind |-> "row", attrib |-> a]

\* The closing tag of another table.
endtag_other(table) == CloseTag("posts")

\* f"</{self.name}>" (line 46)
endtag(table) == CloseTag(table.name)

\* ET.fromstring(line) (line 53) raises ParseError unless the line is one
\* complete element.
fromstring_raises(content) == content.kind # "row"

\* The attribute dictionaries of the record lines of the model's inputs
\* that parse.  "01" and "1" are the same integer.
RecordAttribs ==
    { [Id |-> <<"1">>, Name |-> <<"a">>],
      [Id |-> <<"2">>, ParentId |-> <<"1">>],
      [Id |-> <<"0", "1">>, Name |-> <<"c">>] }

\* The lines of a section that the load gets past.
SectionLines == { Line(Element(a)) : a \in RecordAttribs }

\* The lines at which the reading of a section stops: the closing tag of the
\* table, an opening tag where a record should be (no complete element),
\* and a record whose ParentId is no integer ("x").
Stoppers ==
    { Line(CloseTag(self.name)),
      Line(OpenTag(self.name)),
      Line(Element([Id |-> <<"3">>, ParentId |-> <<"x">>])) }

RECURSIVE SeqsUpTo(_, _)
SeqsUpTo(S, n) ==
    IF n = 0 THEN { << >> }
    ELSE LET shorter == SeqsUpTo(S, n - 1)
         IN  shorter \cup { Append(q, x) : q \in { r \in shorter : Len(r) = n - 1 }, x \in S }

\* How a file ends after the lines the load gets past: at once, or with a
\* line at which the reading stops and, after it, lines that are records
\* again (and are never read).
Endings(n) ==
    { << >> } \cup
    { << stopper >>
        \o [i \in 1..k |-> Line(Element([Id |-> <<"1">>, Name |-> <<"a">>]))] :
      stopper \in Stoppers, k \in 0..(n - 1) }

Framing == << Line(XmlDecl), Line(OpenTag(self.name)) >>

\* The files a load is given: the two framing lines, a section and an
\* ending, or a file cut short inside the framing lines.
Files ==
    UNION { { Framing \o section \o ending :
                ending \in { e \in Endings(MaxBodyLines) :
                               Len(section) + Len(e) <= MaxBodyLines } } :
            section \in SeqsUpTo(SectionLines, MaxBodyLines) }
        \cup { << >>, << Line(XmlDecl) >> }

(***************************************************************************)
(* Row filters a caller passes as filter_row (line 34): no filter, one     *)
(* that discards every row, one that keeps only the rows without a parent, *)
(* and one that raises sqlite3.IntegrityError on a row with a parent.      *)
(***************************************************************************)
Filters == { "None", "drop_all", "roots_only", "check_parent" }

ColumnValue(row, c) ==
    LET i == CHOOSE j \in 1..Len(row.items) : row.items[j].col = c
    IN  row.items[i].val

filter_raises(f, row) ==
    f = "check_parent" /\ ColumnValue(row, "parent_id") # None

\* The filter's answer not taken.
filter_row_result_keep_all(f, row) == row

filter_row_result(f, row) ==
    CASE f = "drop_all" -> None
      [] f = "roots_only" ->
            IF ColumnValue(row, "parent_id") # None THEN None ELSE row
      [] OTHER -> row

(***************************************************************************)
(* Exceptions.  sqlite3.IntegrityError and sqlite3.OperationalError are    *)
(* subclasses of sqlite3.Error; the others are not.                        *)
(***************************************************************************)
SqliteErrors == { "IntegrityError", "OperationalError" }

\* A try statement without the clause of lines 73-74.
except_clause_reraise(exc) ==
    IF exc \in SqliteErrors THEN "print_and_raise" ELSE "propagate"

\* A try statement whose first clause catches every exception.
except_clause_swallow(exc) == "continue"

\* What the try statement of lines 71-79 does with an exception leaving
\* cur.executemany.
except_clause(exc) ==
    IF exc = "IntegrityError" THEN "continue"
    ELSE IF exc \in SqliteErrors THEN "print_and_raise"
    ELSE "propagate"

(***************************************************************************)
(* The SQL statements, by what the store needs of them.                    *)
(***************************************************************************)
\* The statement as CREATE TABLE, without IF NOT EXISTS.
create_sql_plain(table) ==
    [if_not_exists |-> FALSE,
     name |-> table.name,
     defs |-> [i \in 1..Len(table.schema) |->
                  << table.schema[i].col, table.schema[i].typ >>]
              \o table.constraints]

\* lines 17-18
create_sql(table) ==
    [if_not_exists |-> TRUE,
     name |-> table.name,
     defs |-> [i \in 1..Len(table.schema) |->
                  << table.schema[i].col, table.schema[i].typ >>]
              \o table.constraints]

\* line 65
insert_sql(table, exist_ok) ==
    [or_ignore |-> exist_ok,
     name |-> table.name,
     columns |-> [i \in 1..Len(table.schema) |-> table.schema[i].col],
     placeholders |-> Len(table.schema)]

VARIABLES
    pc,             \* where the caller and the running load are
    loads,          \* insert_from_xml calls made so far
    ddl_calls,      \* create_if_not_exists calls since the last load
    at_first_create,    \* the store before and after the first of these calls
    create_error,   \* exception the last create_if_not_exists raised, or "none"
    error,          \* exception the last insert_from_xml raised, or "none"
    path,           \* the lines of the file at path
    exist_ok,
    filter_row,
    fd,             \* "none", "open" or "closed": the file object of line 35
    it,             \* number of lines consumed from iter(fd)
    cur,            \* "none", "open" or "closed": the cursor of line 68
    data,           \* the generator pull_rows(): "created", "active", "finished"
    last_row,
    done,
    record_count,   \* the total handed to tqdm (line 47), None before
    params,         \* the row executemany got from data and has not bound
                    \* yet, << >> when it holds none
    printed,        \* what lines 76-78 printed
    db_tables,      \* the tables of the store: name and column definitions
    db_rows,        \* the rows of the table as the connection sees them
    db_durable,     \* the rows of the table that are committed
    commits,        \* db.commit() calls of the running load
    rejected,       \* rows of the running load the store raised IntegrityError on
    ignored,        \* rows of the running load INSERT OR IGNORE skipped
    filtered,       \* rows of the running load the filter returned None for
    rows_at_start,  \* db_rows when the running load began
    durable_at_start,
    first_run,      \* "Committed" when the running call repeats the call before
    handed,         \* positions of the lines whose rows data has yielded (line 62)
    stored,         \* positions of the lines whose rows the store has executed
    parse_call      \* a call of parse_row made by the caller itself: the
                    \* table, xml_root.attrib and what the call gave; or None

vars ==
    << pc, loads, ddl_calls, at_first_create, create_error, error, path,
       exist_ok, filter_row, fd, it, cur,
       data, last_row, done, record_count, params, printed, db_tables, db_rows,
       db_durable, commits, rejected, ignored, filtered, rows_at_start,
       durable_at_start, first_run, handed, stored, parse_call >>

\* The variables of the store and of the calls of insert_from_xml.
storeVars ==
    << pc, loads, ddl_calls, at_first_create, create_error, error, path,
       exist_ok, filter_row, fd, it, cur,
       data, last_row, done, record_count, params, printed, db_tables, db_rows,
       db_durable, commits, rejected, ignored, filtered, rows_at_start,
       durable_at_start, first_run, handed, stored >>

loadVars ==
    << error, path, exist_ok, filter_row, fd, it, cur, data, last_row, done,
       record_count, params, printed, commits, rejected, ignored, filtered,
       rows_at_start, durable_at_start, first_run, handed, stored >>

Init ==
    /\ pc = "NotStarted"
    /\ loads = 0
    /\ ddl_calls = 0
    /\ at_first_create = None
    /\ create_error = "none"
    /\ error = "none"
    /\ path = << >>
    /\ exist_ok = FALSE
    /\ filter_row = "None"
    /\ fd = "none"
    /\ it = 0
    /\ cur = "none"
    /\ data = "none"
    /\ last_row = None
    /\ done = FALSE
    /\ record_count = None
    /\ params = << >>
    /\ printed = << >>
    /\ db_tables = {}
    /\ db_rows = {}
    /\ db_durable = {}
    /\ commits = 0
    /\ rejected = 0
    /\ ignored = 0
    /\ filtered = 0
    /\ rows_at_start = {}
    /\ durable_at_start = {}
    /\ first_run = "none"
    /\ handed = << >>
    /\ stored = << >>
    /\ parse_call = None

\* The caller is between calls.
AtRest == pc = "NotStarted"
\* A call of insert_from_xml has returned or raised.
Ended == pc \in { "Committed", "Failed" }

(***************************************************************************)
(* The store.                                                              *)
(***************************************************************************)
TableExists(n) == \E t \in db_tables : t.name = n

\* The columns a PRIMARY KEY declared on a column definition covers.
KeyColumns(defs) ==
    { i \in 1..Len(defs) :
        \E j \in 1..(Len(defs[i][2]) - 1) :
            defs[i][2][j] = "PRIMARY" /\ defs[i][2][j + 1] = "KEY" }

KeyOf(n, row) ==
    LET t == CHOOSE u \in db_tables : u.name = n
    IN  [i \in KeyColumns(t.defs) |-> row[i]]

\* A row conflicts when the table holds a row with its primary key.
Conflicts(n, row) ==
    /\ DOMAIN KeyOf(n, row) # {}
    /\ \E r \in db_rows : KeyOf(n, r) = KeyOf(n, row)

(***************************************************************************)
(* Table.create_if_not_exists (lines 16-19).                               *)
(***************************************************************************)
create_if_not_exists ==
    /\ AtRest
    /\ ddl_calls < MaxDdlCalls
    /\ ddl_calls' = ddl_calls + 1
    /\ LET sql == create_sql(self)
       IN  IF TableExists(sql.name)
           THEN /\ create_error' = IF sql.if_not_exists THEN "none" ELSE "OperationalError"
                /\ UNCHANGED db_tables
           ELSE /\ create_error' = "none"
                /\ db_tables' = db_tables \cup { [name |-> sql.name, defs |-> sql.defs] }
    /\ at_first_create' =
          IF ddl_calls = 0
          THEN [before |-> db_tables, after |-> db_tables',
                rows |-> db_rows, durable |-> db_durable]
          ELSE at_first_create
    /\ UNCHANGED << parse_call, pc, loads, db_rows, db_durable >>
    /\ UNCHANGED loadVars

(***************************************************************************)
(* Table.insert_from_xml (lines 34-83).                                    *)
(***************************************************************************)
\* The lines range(2) skips (line 38).
FramingLines == 2
\* The lines the total of the progress bar leaves out (line 47).
UncountedLines == 3

\* Lines 35-68: open the file, skip the framing lines, create the generator
\* and the cursor.  next(it) raises StopIteration on a file that ends inside
\* the framing lines.
Begin(file, ok, f) ==
    /\ loads < MaxLoads
    /\ loads' = loads + 1
    /\ ddl_calls' = 0
    /\ at_first_create' = None
    /\ path' = file
    /\ exist_ok' = ok
    /\ filter_row' = f
    /\ fd' = "open"
    /\ IF Len(file) < FramingLines
       THEN /\ it' = Len(file)
            /\ pc' = "Failed"
            /\ error' = "StopIteration"
            /\ data' = "none"
            /\ cur' = "none"
       ELSE /\ it' = FramingLines
            /\ pc' = "while"
            /\ error' = "none"
            /\ data' = "created"
            /\ cur' = "open"
    /\ last_row' = None
    /\ done' = FALSE
    /\ record_count' = None
    /\ params' = << >>
    /\ printed' = << >>
    /\ commits' = 0
    /\ rejected' = 0
    /\ ignored' = 0
    /\ filtered' = 0
    /\ rows_at_start' = db_rows
    /\ durable_at_start' = db_durable
    /\ handed' = << >>
    /\ stored' = << >>
    /\ UNCHANGED << parse_call, create_error, db_tables, db_rows, db_durable >>

\* The caller calls insert_from_xml.
insert_from_xml ==
    /\ AtRest
    /\ first_run' = "none"
    /\ \E file \in Files, ok \in BOOLEAN, f \in Filters : Begin(file, ok, f)

\* The caller calls insert_from_xml once more with the arguments of the call
\* that has just returned.
insert_from_xml_again ==
    /\ pc = "Committed"
    /\ first_run' = pc
    /\ Begin(path, exist_ok, filter_row)

\* The call has ended and the caller goes on: the locals of the call are gone.
return_to_caller ==
    /\ Ended
    /\ pc' = "NotStarted"
    /\ first_run' = "none"
    /\ error' = "none"
    /\ path' = << >>
    /\ exist_ok' = FALSE
    /\ filter_row' = "None"
    /\ fd' = "none"
    /\ it' = 0
    /\ cur' = "none"
    /\ data' = "none"
    /\ last_row' = None
    /\ done' = FALSE
    /\ record_count' = None
    /\ params' = << >>
    /\ printed' = << >>
    /\ commits' = 0
    /\ rejected' = 0
    /\ ignored' = 0
    /\ filtered' = 0
    /\ rows_at_start' = {}
    /\ durable_at_start' = {}
    /\ handed' = << >>
    /\ stored' = << >>
    /\ UNCHANGED << parse_call, loads, ddl_calls, at_first_create, create_error,
                    db_tables, db_rows, db_durable >>

\* The loop as `while done`.
while_condition_inverted(d) == d

\* line 70
while_condition(d) == ~d

\* Lines 76-79 printing no row.
Raised_without_row(exc) ==
    CASE except_clause(exc) = "continue" ->
            /\ pc' = "while"
            /\ UNCHANGED << error, printed >>
      [] except_clause(exc) = "print_and_raise" ->
            /\ pc' = "Failed"
            /\ error' = exc
            /\ printed' = Append(printed, None)
      [] OTHER ->
            /\ pc' = "Failed"
            /\ error' = exc
            /\ UNCHANGED printed

\* An exception leaves cur.executemany (line 72) and meets lines 73-79.
Raised(exc) ==
    CASE except_clause(exc) = "continue" ->
            /\ pc' = "while"
            /\ UNCHANGED << error, printed >>
      [] except_clause(exc) = "print_and_raise" ->
            /\ pc' = "Failed"
            /\ error' = exc
            /\ printed' = Append(printed, last_row)
      [] OTHER ->
            /\ pc' = "Failed"
            /\ error' = exc
            /\ UNCHANGED printed

\* Lines 70-72: the loop goes round and cur.executemany compiles the
\* statement; the store raises OperationalError when the table is missing.
executemany ==
    /\ pc = "while"
    /\ while_condition(done)
    /\ IF TableExists(insert_sql(self, exist_ok).name)
       THEN /\ pc' = "executemany"
            /\ UNCHANGED << error, printed >>
       ELSE Raised("OperationalError")
    /\ UNCHANGED << parse_call, loads, ddl_calls, at_first_create, create_error,
                    path, exist_ok, filter_row,
                    fd, it, cur, data, last_row, done, record_count, params,
                    db_tables, db_rows, db_durable, commits, rejected, ignored,
                    filtered, rows_at_start, durable_at_start, first_run,
                    handed, stored >>

\* cur.executemany asks a generator that has ended for its next row: there
\* is none, and executemany returns.
executemany_returns ==
    /\ pc = "executemany"
    /\ data = "finished"
    /\ pc' = "while"
    /\ UNCHANGED << parse_call, loads, ddl_calls, at_first_create, create_error,
                    error, path, exist_ok,
                    filter_row, fd, it, cur, data, last_row, done, record_count,
                    params, printed, db_tables, db_rows, db_durable, commits,
                    rejected, ignored, filtered, rows_at_start, durable_at_start, first_run,
                    handed, stored >>

\* A progress wrapper that stops after total items.
tqdm_ends_at_total(consumed, length, total) ==
    consumed = length \/ consumed - FramingLines >= total

\* tqdm(it, total=record_count, ...) (line 48) ends when it ends: the first
\* `consumed` of the `length` lines of the file are gone; the total is shown
\* and nothing else.
tqdm_ends(consumed, length, total) == consumed = length

\* A consumer that asks for rows ahead of the statement it is running.
asks_next_ahead(p) == p \in { "executemany", "execute" }

\* next(data) is evaluated inside cur.executemany (line 72), when the
\* statement has no row left to run.
asks_next(p) == p = "executemany"

\* Lines 46-63: cur.executemany asks the generator for its next row and the
\* generator runs up to its next line of the file.
pull_rows ==
    /\ asks_next(pc)
    /\ data \in { "created", "active" }
    /\ record_count' = IF data = "created"
                       THEN PyInt(Len(path) - UncountedLines)
                       ELSE record_count
    /\ IF tqdm_ends(it, Len(path), record_count'.int)
       THEN \* the file is exhausted: the for loop ends, line 63
            /\ done' = TRUE
            /\ data' = "finished"
            /\ pc' = "while"
            /\ UNCHANGED << it, error, printed, last_row, params, filtered, handed >>
       ELSE LET line == strip(path[it + 1])
                row == parse_row(self, line.attrib)
                kept == IF filter_row # "None"
                        THEN filter_row_result(filter_row, row)
                        ELSE row
            IN  /\ it' = it + 1
                /\ IF line = endtag(self)
                   THEN \* break, then line 63
                        /\ done' = TRUE
                        /\ data' = "finished"
                        /\ pc' = "while"
                        /\ UNCHANGED << error, printed, last_row, params, filtered, handed >>
                   ELSE IF fromstring_raises(line)
                   THEN /\ data' = "finished"
                        /\ Raised("ParseError")
                        /\ UNCHANGED << done, last_row, params, filtered, handed >>
                   ELSE IF parse_row_raises(self, line.attrib)
                   THEN /\ data' = "finished"
                        /\ Raised("ValueError")
                        /\ UNCHANGED << done, last_row, params, filtered, handed >>
                   ELSE IF filter_row # "None" /\ filter_raises(filter_row, row)
                   THEN /\ data' = "finished"
                        /\ Raised("IntegrityError")
                        /\ UNCHANGED << done, last_row, params, filtered, handed >>
                   ELSE IF kept = None
                   THEN \* continue
                        /\ data' = "active"
                        /\ filtered' = filtered + 1
                        /\ UNCHANGED << pc, done, error, printed, last_row, params, handed >>
                   ELSE \* lines 61-62
                        /\ data' = "active"
                        /\ last_row' = kept
                        /\ params' = values(kept)
                        /\ handed' = Append(handed, it + 1)
                        /\ pc' = "execute"
                        /\ UNCHANGED << done, error, printed, filtered >>
    /\ UNCHANGED << parse_call, loads, ddl_calls, at_first_create, create_error,
                    path, exist_ok, filter_row,
                    fd, cur, db_tables, db_rows, db_durable, commits, rejected,
                    ignored, rows_at_start, durable_at_start, first_run,
                    stored >>

\* The statement as INSERT OR REPLACE: the row takes the place of the row
\* that has its primary key.
execute_row_replace ==
    /\ pc = "execute"
    /\ params' = << >>
    /\ stored' = Append(stored, handed[Len(handed)])
    /\ LET sql == insert_sql(self, exist_ok)
       IN  IF Conflicts(sql.name, params) /\ ~sql.or_ignore
           THEN /\ rejected' = rejected + 1
                /\ Raised("IntegrityError")
                /\ UNCHANGED << ignored, db_rows >>
           ELSE /\ db_rows' = { r \in db_rows : KeyOf(sql.name, r) # KeyOf(sql.name, params) }
                                \cup { params }
                /\ pc' = "executemany"
                /\ UNCHANGED << rejected, ignored, error, printed >>
    /\ UNCHANGED << parse_call, loads, ddl_calls, at_first_create, create_error,
                    path, exist_ok, filter_row,
                    fd, it, cur, data, last_row, done, record_count, db_tables,
                    db_durable, commits, filtered, rows_at_start,
                    durable_at_start, first_run,
                    handed >>

\* A store that undoes the rows of the running executemany call when it
\* rejects a row.
execute_row_undo_batch ==
    /\ pc = "execute"
    /\ params' = << >>
    /\ stored' = Append(stored, handed[Len(handed)])
    /\ LET sql == insert_sql(self, exist_ok)
       IN  IF Conflicts(sql.name, params)
           THEN IF sql.or_ignore
                THEN /\ ignored' = ignored + 1
                     /\ pc' = "executemany"
                     /\ UNCHANGED << rejected, db_rows, error, printed >>
                ELSE /\ rejected' = rejected + 1
                     /\ db_rows' = rows_at_start
                     /\ Raised("IntegrityError")
                     /\ UNCHANGED ignored
           ELSE /\ db_rows' = db_rows \cup { params }
                /\ pc' = "executemany"
                /\ UNCHANGED << rejected, ignored, error, printed >>
    /\ UNCHANGED << parse_call, loads, ddl_calls, at_first_create, create_error,
                    path, exist_ok, filter_row,
                    fd, it, cur, data, last_row, done, record_count, db_tables,
                    db_durable, commits, filtered, rows_at_start,
                    durable_at_start, first_run, handed >>

\* cur.executemany runs the INSERT statement on the row it got.
execute_row ==
    /\ pc = "execute"
    /\ params' = << >>
    /\ stored' = Append(stored, handed[Len(handed)])
    /\ LET sql == insert_sql(self, exist_ok)
       IN  IF Conflicts(sql.name, params)
           THEN IF sql.or_ignore
                THEN /\ ignored' = ignored + 1
                     /\ pc' = "executemany"
                     /\ UNCHANGED << rejected, db_rows, error, printed >>
                ELSE /\ rejected' = rejected + 1
                     /\ Raised("IntegrityError")
                     /\ UNCHANGED << ignored, db_rows >>
           ELSE /\ db_rows' = db_rows \cup { params }
                /\ pc' = "executemany"
                /\ UNCHANGED << rejected, ignored, error, printed >>
    /\ UNCHANGED << parse_call, loads, ddl_calls, at_first_create, create_error,
                    path, exist_ok, filter_row,
                    fd, it, cur, data, last_row, done, record_count, db_tables,
                    db_durable, commits, filtered, rows_at_start,
                    durable_at_start, first_run,
                    handed >>

\* A store that rolls its transaction back when a statement fails.
execute_fails_rollback ==
    /\ pc = "execute"
    /\ params' = << >>
    /\ stored' = Append(stored, handed[Len(handed)])
    /\ db_rows' = db_durable
    /\ Raised("OperationalError")
    /\ UNCHANGED << parse_call, loads, ddl_calls, at_first_create, create_error,
                    path, exist_ok, filter_row,
                    fd, it, cur, data, last_row, done, record_count, db_tables,
                    db_durable, commits, rejected, ignored, filtered,
                    rows_at_start, durable_at_start, first_run,
                    handed >>

\* The store fails on the statement for a reason of its own (the disk is
\* full, the database is locked): sqlite3.OperationalError.
execute_fails ==
    /\ pc = "execute"
    /\ params' = << >>
    /\ stored' = Append(stored, handed[Len(handed)])
    /\ Raised("OperationalError")
    /\ UNCHANGED << parse_call, loads, ddl_calls, at_first_create, create_error,
                    path, exist_ok, filter_row,
                    fd, it, cur, data, last_row, done, record_count, db_tables,
                    db_rows, db_durable, commits, rejected, ignored, filtered,
                    rows_at_start, durable_at_start, first_run,
                    handed >>

\* Lines 82-83 without line 81.
close_without_commit ==
    /\ pc = "while"
    /\ done
    /\ cur' = "closed"
    /\ fd' = "closed"
    /\ pc' = "Committed"
    /\ UNCHANGED << parse_call, loads, ddl_calls, at_first_create, create_error,
                    error, path, exist_ok,
                    filter_row, it, data, last_row, done, record_count, params,
                    printed, db_tables, db_rows, db_durable, commits, rejected,
                    ignored, filtered, rows_at_start, durable_at_start, first_run,
                    handed, stored >>

\* Lines 81-83, once the loop has ended.
commit_and_close ==
    /\ pc = "while"
    /\ ~while_condition(done)
    /\ db_durable' = db_rows
    /\ commits' = commits + 1
    /\ cur' = "closed"
    /\ fd' = "closed"
    /\ pc' = "Committed"
    /\ UNCHANGED << parse_call, loads, ddl_calls, at_first_create, create_error,
                    error, path, exist_ok,
                    filter_row, it, data, last_row, done, record_count, params,
                    printed, db_tables, db_rows, rejected, ignored, filtered,
                    rows_at_start, durable_at_start, first_run,
                    handed, stored >>

(***************************************************************************)
(* Table.parse_row called by itself (lines 21-32), on any of the three     *)
(* tables and any attribute dictionary of the bounded inputs.              *)
(***************************************************************************)
\* Names and values of the attributes of the elements parse_row is given.
AttribNames == { "Id", "Name", "Score", "Views" }
AttribValues == { <<"7">>, <<"-", "1", "2">>, <<"0", "1">>, <<"x">> }

\* The attribute dictionaries with at most MaxAttribs attributes.
Attribs ==
    UNION { [names -> AttribValues] :
              names \in { n \in SUBSET AttribNames : Cardinality(n) <= MaxAttribs } }

call_parse_row ==
    /\ AtRest
    /\ parse_call = None
    /\ \E table \in Tables, attrib \in Attribs :
          parse_call' =
             [table |-> table,
              attrib |-> attrib,
              raised |-> IF parse_row_raises(table, attrib)
                         THEN "ValueError" ELSE "none",
              vals |-> IF parse_row_raises(table, attrib)
                       THEN None ELSE parse_row(table, attrib)]
    /\ UNCHANGED storeVars

\* The caller drops what the call gave.
parse_row_returns ==
    /\ parse_call # None
    /\ parse_call' = None
    /\ UNCHANGED storeVars

ParseNext ==
    \/ call_parse_row
    \/ parse_row_returns

ParseSpec == Init /\ [][ParseNext]_vars

Next ==
    \/ create_if_not_exists
    \/ insert_from_xml
    \/ insert_from_xml_again
    \/ return_to_caller
    \/ executemany
    \/ executemany_returns
    \/ pull_rows
    \/ execute_row
    \/ execute_fails
    \/ commit_and_close

Spec == Init /\ [][Next]_vars

(***************************************************************************)
(* Notions the properties below are stated in, computed from the source    *)
(* file of the running load.                                               *)
(***************************************************************************)
\* The position of the line that ends the row sequence: the first closing
\* tag of the table after the framing lines, or one past the end of the file.
RECURSIVE ScanForEnd(_, _)
ScanForEnd(file, i) ==
    IF i > Len(file) \/ file[i].text = CloseTag("sites") THEN i
    ELSE ScanForEnd(file, i + 1)

EndIndex(file) == ScanForEnd(file, FramingLines + 1)

\* The positions of the record lines.
RecordIndexes(file) == (FramingLines + 1)..(EndIndex(file) - 1)

\* The number of lines a load that drains the file consumes.
DrainedAt(file) == IF EndIndex(file) > Len(file) THEN Len(file) ELSE EndIndex(file)

Malformed(l) == l.text.kind # "row"
NonNumeric(l) ==
    /\ l.text.kind = "row"
    /\ \E a \in DOMAIN l.text.attrib \cap { "Id", "ParentId" } :
          \E k \in 1..Len(l.text.attrib[a]) :
              l.text.attrib[a][k] \notin { "0", "1", "2", "3", "4", "5", "6", "7", "8", "9" }

WellFormed(file) ==
    /\ Len(file) >= FramingLines
    /\ \A i \in RecordIndexes(file) : ~Malformed(file[i]) /\ ~NonNumeric(file[i])

\* The row of a record line, and its primary key (the id column).
RowOf(l) == values(parse_row(sites, l.text.attrib))
IdOf(r) == r[1]
HasParent(l) == "ParentId" \in DOMAIN l.text.attrib

\* The record lines a filter discards.
Discards(f, l) == f = "drop_all" \/ (f = "roots_only" /\ HasParent(l))
\* The record lines a filter raises on.
RaisesOn(f, l) == f = "check_parent" /\ HasParent(l)

\* The positions of the record lines whose rows reach the store.
Yielded(file, f) == { i \in RecordIndexes(file) : ~Discards(f, file[i]) }

\* Among them, those that are the first of their primary key and whose key
\* is not in the rows held before.
FirstOfKey(file, f, held) ==
    { i \in Yielded(file, f) :
        /\ \A j \in Yielded(file, f) : j < i => IdOf(RowOf(file[j])) # IdOf(RowOf(file[i]))
        /\ \A r \in held : IdOf(r) # IdOf(RowOf(file[i])) }

KeysUnique(rows) == \A r1, r2 \in rows : IdOf(r1) = IdOf(r2) => r1 = r2

\* The errors that end a load whatever its tolerance of duplicates.
OtherFatal == { "ParseError", "ValueError", "OperationalError", "StopIteration" }

LineA == Line(Element([Id |-> <<"1">>, Name |-> <<"a">>]))
LineB == Line(Element([Id |-> <<"2">>, ParentId |-> <<"1">>]))
LineA2 == Line(Element([Id |-> <<"0", "1">>, Name |-> <<"c">>]))
LineX == Line(Element([Id |-> <<"3">>, ParentId |-> <<"x">>]))
LineEnd == Line(CloseTag("sites"))

(***************************************************************************)
(* C1.  When the store rejects a submitted row with an integrity           *)
(* violation the load does not abort: no IntegrityError is ever raised to  *)
(* the caller, the generator stays alive where it was, so the rows after   *)
(* the rejected one are still pulled, and a load that has had a row        *)
(* rejected ends committed, with the row sequence drained, unless it meets *)
(* a fatal error.                                                          *)
(***************************************************************************)
C1_IntegrityViolationTolerated ==
    /\ error # "IntegrityError"
    /\ (rejected > 0 /\ pc # "Failed" /\ ~done /\ filter_row # "check_parent")
          => data = "active"
    /\ (rejected > 0 /\ pc = "Failed") => error \in OtherFatal
    /\ (rejected > 0 /\ pc = "Committed")
          => /\ error = "none"
             /\ done
             /\ it = DrainedAt(path)

C1_Witness ==
    /\ pc = "Committed"
    /\ path = Framing \o << LineA, LineA2, LineB >>
    /\ ~exist_ok
    /\ rejected = 1
    /\ RowOf(LineB) \in db_rows

\* The rows the store holds for the record lines at the positions idx.
RowsAt(file, idx) == { RowOf(file[i]) : i \in idx }

\* A row reaches the store whose primary key an earlier row of the source,
\* or a row the store held before the load, has.
DuplicateYielded ==
    Yielded(path, filter_row) # FirstOfKey(path, filter_row, rows_at_start)

(***************************************************************************)
(* C2, as stated.  With exist_ok false, a load whose source repeats a      *)
(* primary key (of an earlier record or of a row in the store) ends with   *)
(* an IntegrityError raised to the caller.                                 *)
(***************************************************************************)
C2_DuplicateIsFatal ==
    (/\ Ended
     /\ ~exist_ok
     /\ WellFormed(path)
     /\ error # "OperationalError"
     /\ DuplicateYielded)
        => (pc = "Failed" /\ error = "IntegrityError")

(***************************************************************************)
(* C2, amended.  With exist_ok false, a load whose source repeats a        *)
(* primary key has the store raise IntegrityError on each repeating row;   *)
(* the load drops those rows, raises nothing to the caller and ends        *)
(* committed with the first row of each key, unless the store fails for    *)
(* another reason.                                                         *)
(***************************************************************************)
C2_DuplicateIsDropped ==
    (/\ Ended
     /\ ~exist_ok
     /\ WellFormed(path)
     /\ error # "OperationalError"
     /\ DuplicateYielded)
        => /\ pc = "Committed"
           /\ error = "none"
           /\ rejected = Cardinality(Yielded(path, filter_row)
                                        \ FirstOfKey(path, filter_row, rows_at_start))
           /\ db_rows = rows_at_start
                           \cup RowsAt(path, FirstOfKey(path, filter_row, rows_at_start))
           /\ db_durable = db_rows

C2_Witness ==
    /\ pc = "Committed"
    /\ ~exist_ok
    /\ path = Framing \o << LineA, LineB, LineA2 >>
    /\ rejected = 1
    /\ db_durable = { RowOf(LineA), RowOf(LineB) }

(***************************************************************************)
(* C3.  With exist_ok true, no filter and an empty table, a load of a      *)
(* well-formed source in which lines repeat the primary key of an earlier  *)
(* line ends committed with no error raised, unless the store fails; the   *)
(* committed rows are the first row of each key, one row per distinct key  *)
(* of the source.                                                          *)
(***************************************************************************)
C3_FirstOfEachKeyCommitted ==
    (/\ Ended
     /\ exist_ok
     /\ filter_row = "None"
     /\ rows_at_start = {}
     /\ WellFormed(path)
     /\ error # "OperationalError")
        => /\ pc = "Committed"
           /\ error = "none"
           /\ db_durable = RowsAt(path, FirstOfKey(path, "None", {}))
           /\ Cardinality(db_durable)
                = Cardinality({ IdOf(RowOf(path[i])) : i \in RecordIndexes(path) })

C3_Witness ==
    /\ pc = "Committed"
    /\ exist_ok
    /\ filter_row = "None"
    /\ path = Framing \o << LineA, LineB, LineA2 >>
    /\ rows_at_start = {}
    /\ ignored = 1
    /\ db_durable = { RowOf(LineA), RowOf(LineB) }

(***************************************************************************)
(* C4.  A load with exist_ok true of a well-formed source into a table     *)
(* that holds rows of an earlier load ends committed with no error raised, *)
(* unless the store fails; the table then holds the rows it held before    *)
(* and, for each primary key it did not hold, the first row of the source  *)
(* with that key, so no two rows share a primary key; a load that repeats  *)
(* a committed load leaves the table as that load left it.                 *)
(***************************************************************************)
C4_RerunIsIdempotent ==
    (/\ Ended
     /\ exist_ok
     /\ WellFormed(path)
     /\ error # "OperationalError")
        => /\ pc = "Committed"
           /\ error = "none"
           /\ db_rows = rows_at_start
                           \cup RowsAt(path, FirstOfKey(path, filter_row, rows_at_start))
           /\ KeysUnique(db_rows)
           /\ db_durable = db_rows
           /\ first_run = "Committed" => db_rows = rows_at_start

C4_Witness ==
    /\ pc = "Committed"
    /\ loads = 2
    /\ exist_ok
    /\ path = Framing \o << LineA2, LineB, LineEnd >>
    /\ rows_at_start = { RowOf(LineA) }
    /\ db_durable = { RowOf(LineA), RowOf(LineB) }

(***************************************************************************)
(* C5.  After a load of a well-formed source that ends committed, the      *)
(* number of rows the load added to the table is the number of record      *)
(* lines less the records the filter discarded less the rows dropped on a  *)
(* conflict of primary keys (rejected by the store or skipped by INSERT OR *)
(* IGNORE); and at every point of a load the rows added so far are at most *)
(* the record lines read so far.                                           *)
(***************************************************************************)
RecordLinesRead ==
    LET e == EndIndex(path)
    IN  IF it <= FramingLines THEN 0
        ELSE IF it < e THEN it - FramingLines
        ELSE e - 1 - FramingLines

Added == Cardinality(db_rows) - Cardinality(rows_at_start)

C5_InsertedCount ==
    /\ (pc = "Committed" /\ WellFormed(path))
          => Added = Cardinality(RecordIndexes(path))
                       - Cardinality({ i \in RecordIndexes(path) :
                                         Discards(filter_row, path[i]) })
                       - (rejected + ignored)
    /\ pc # "NotStarted" => Added <= RecordLinesRead

C5_Witness ==
    /\ pc = "Committed"
    /\ filter_row = "roots_only"
    /\ path = Framing \o << LineA, LineB, LineA2 >>
    /\ rejected = 1
    /\ Added = 1

(***************************************************************************)
(* C6.  A load commits once, and only when the row sequence is drained:    *)
(* the commit is what takes the load to Committed, done is set and the     *)
(* generator has ended at the closing tag or the end of the file; until    *)
(* then, whatever the number of integrity violations, the committed rows   *)
(* are those of the start of the load.                                     *)
(***************************************************************************)
C6_CommitOnceWhenDrained ==
    /\ commits <= 1
    /\ commits = 1 <=> pc = "Committed"
    /\ pc = "Committed" => (done /\ data = "finished" /\ it = DrainedAt(path))
    /\ pc \in { "while", "executemany", "execute", "Failed" }
          => db_durable = durable_at_start

C6_Witness ==
    /\ pc = "Committed"
    /\ rejected = 2
    /\ commits = 1
    /\ db_durable # durable_at_start

(***************************************************************************)
(* C7.  A fatal error aborts the load: reading a malformed record line     *)
(* ends the load Failed with ParseError, reading a non-numeric value of an *)
(* integer column ends it Failed with ValueError, a store error other than *)
(* an integrity violation ends it Failed with that error after printing    *)
(* the last row; a failed load has raised its error to the caller and has  *)
(* committed nothing, also when the store accepted rows before.            *)
(***************************************************************************)
C7_FatalErrorAborts ==
    /\ pc = "Failed"
          => (error \in OtherFatal /\ commits = 0 /\ db_durable = durable_at_start)
    /\ error # "none" => pc = "Failed"
    /\ LET e == EndIndex(path)
       IN  \A i \in (FramingLines + 1)..it :
              /\ (i < e /\ Malformed(path[i]))
                    => (pc = "Failed" /\ error = "ParseError" /\ it = i)
              /\ (i < e /\ NonNumeric(path[i]))
                    => (pc = "Failed" /\ error = "ValueError" /\ it = i)
    /\ printed # << >> => (pc = "Failed" /\ error = "OperationalError")

C7_Witness ==
    /\ pc = "Failed"
    /\ error = "ValueError"
    /\ path = Framing \o << LineA, LineB, LineX >>
    /\ db_rows = { RowOf(LineA), RowOf(LineB) }
    /\ db_durable = {}

(***************************************************************************)
(* C8.  When a load has ended, Committed or Failed (by a fatal store error  *)
(* or by an error of parsing in mid-stream), the file and the cursor are   *)
(* closed.                                                                 *)
(***************************************************************************)
C8_ResourcesReleased ==
    (Ended /\ error # "StopIteration") => (fd = "closed" /\ cur = "closed")

(***************************************************************************)
(* C9.  A record the filter returns None for is never handed to the store  *)
(* and does not stop the load: the row being executed and the rows added   *)
(* are rows the filter kept, a committed load has stored the key of every  *)
(* row the filter kept, and a load whose filter discards every record of a *)
(* well-formed source adds no row and ends committed, unless the store     *)
(* fails.                                                                  *)
(***************************************************************************)
ReadWell(i) == i <= it /\ ~Malformed(path[i]) /\ ~NonNumeric(path[i])

C9_FilteredRowsSkipped ==
    /\ pc = "execute"
          => (~Discards(filter_row, path[it]) /\ params = RowOf(path[it]))
    /\ pc # "NotStarted"
          => \A r \in db_rows \ rows_at_start :
                \E i \in RecordIndexes(path) :
                    ReadWell(i) /\ ~Discards(filter_row, path[i]) /\ r = RowOf(path[i])
    /\ pc = "Committed"
          => \A i \in Yielded(path, filter_row) :
                \E r \in db_rows : IdOf(r) = IdOf(RowOf(path[i]))
    /\ (/\ Ended
        /\ filter_row # "None"
        /\ error # "OperationalError"
        /\ WellFormed(path)
        /\ Yielded(path, filter_row) = {})
          => /\ pc = "Committed"
             /\ error = "none"
             /\ db_rows = rows_at_start
             /\ it = DrainedAt(path)

C9_Witness ==
    /\ pc = "Committed"
    /\ filter_row = "drop_all"
    /\ path = Framing \o << LineA, LineB, LineEnd >>
    /\ filtered = 2
    /\ db_rows = {}

(***************************************************************************)
(* C10.  create_if_not_exists is idempotent: no call raises an error, the  *)
(* first call leaves a table that exists as it is, and after the first     *)
(* call the tables and the rows of the store are what they were.           *)
(***************************************************************************)
C10_CreateIsIdempotent ==
    ddl_calls >= 1
        => /\ create_error = "none"
           /\ TableExists("sites")
           /\ db_tables = at_first_create.after
           /\ (\E t \in at_first_create.before : t.name = "sites")
                 => at_first_create.after = at_first_create.before
           /\ db_rows = at_first_create.rows
           /\ db_durable = at_first_create.durable

C10_Witness ==
    /\ ddl_calls = 2
    /\ loads = 1
    /\ db_rows # {}
    /\ create_error = "none"

(***************************************************************************)
(* The running load under fair scheduling: the interpreter goes on         *)
(* executing the call of insert_from_xml as long as it has a next step     *)
(* (lines 70-83).  The caller is free to make no further call.             *)
(***************************************************************************)
Running == pc \in { "while", "executemany", "execute" }

LoadStep ==
    \/ executemany
    \/ executemany_returns
    \/ pull_rows
    \/ execute_row
    \/ commit_and_close

LiveSpec == Spec /\ WF_vars(LoadStep)

(***************************************************************************)
(* C11.  Every load that runs eventually ends, committed or failed,        *)
(* whatever the file, the store and the row filter do.                     *)
(***************************************************************************)
C11_LoadTerminates == Running ~> Ended

(***************************************************************************)
(* Notions of the rows a load has handed over, from its histories.         *)
(***************************************************************************)
Range(q) == { q[k] : k \in 1..Len(q) }
Increasing(q) == \A k \in 2..Len(q) : q[k - 1] < q[k]

\* The place in stored of the row the store failed on, 0 when there is none.
FailedAt ==
    IF pc = "Failed" /\ error = "OperationalError" THEN Len(stored) ELSE 0

\* The places in stored of the rows the store accepted: the first of each
\* primary key the table did not hold.
KeyAt(i) == PyInt(int(path[i].text.attrib.Id))

StoredFirst ==
    { k \in 1..Len(stored) :
        /\ k # FailedAt
        /\ \A j \in 1..(k - 1) : KeyAt(stored[j]) # KeyAt(stored[k])
        /\ \A r \in rows_at_start : IdOf(r) # KeyAt(stored[k]) }

(***************************************************************************)
(* C12.  An integrity violation drops exactly the offending row: the rows  *)
(* are submitted to the store in the order of their lines, each at most    *)
(* once; at every point of a load the table holds the rows it held before  *)
(* and every submitted row that was the first of its key, so the rows      *)
(* accepted before a rejection stay; the rows dropped are exactly the      *)
(* other submitted rows; and a committed load has submitted every row the  *)
(* filter kept.                                                            *)
(***************************************************************************)
C12_OnlyOffendingRowDropped ==
    /\ Increasing(stored)
    /\ pc # "NotStarted"
          => LET first == StoredFirst
             IN  /\ db_rows = rows_at_start
                                \cup { RowOf(path[stored[k]]) : k \in first }
                 /\ rejected + ignored + Cardinality(first)
                       + (IF FailedAt # 0 THEN 1 ELSE 0) = Len(stored)
                 /\ exist_ok => rejected = 0
                 /\ ~exist_ok => ignored = 0
    /\ pc = "Committed" => Range(stored) = Yielded(path, filter_row)

C12_Witness ==
    /\ pc = "Committed"
    /\ ~exist_ok
    /\ path = Framing \o << LineA, LineA2, LineB >>
    /\ stored = << 3, 4, 5 >>
    /\ rejected = 1
    /\ db_durable = { RowOf(LineA), RowOf(LineB) }

(***************************************************************************)
(* C13.  Rows are produced by cooperative pull: at every point of a load   *)
(* at most one row has been yielded and not yet executed by the store,     *)
(* there is one exactly while the store executes it, no line after that    *)
(* row's line has been read, and before cur.executemany first asks for a   *)
(* row nothing of the section has been read or counted.                    *)
(***************************************************************************)
Buffered == Len(handed) - Len(stored)

C13_CooperativePull ==
    /\ Buffered \in { 0, 1 }
    /\ Buffered = 1 <=> pc = "execute"
    /\ Buffered = 1 <=> params # << >>
    /\ Buffered = 1
          => /\ it = handed[Len(handed)]
             /\ params = RowOf(path[it])
    /\ \A k \in 1..Len(stored) : stored[k] = handed[k]
    /\ data = "created"
          => (it = FramingLines /\ record_count = None /\ handed = << >>)

C13_Witness ==
    /\ pc = "execute"
    /\ path = Framing \o << LineA, LineB, LineA2 >>
    /\ handed = << 3, 4, 5 >>
    /\ stored = << 3, 4 >>
    /\ it = 5

(***************************************************************************)
(* C14.  The source is consumed strictly forward and at most once per      *)
(* load: the lines consumed are a prefix of the file that ends at the      *)
(* closing tag of the table at the latest; the rows handed over come from  *)
(* increasing positions among the record lines, never from the two framing *)
(* lines, the closing tag or a line after it; every line consumed after    *)
(* the framing lines has had exactly one outcome (a row handed over, a     *)
(* row discarded by the filter, the end of the section, or an exception);  *)
(* and once the closing tag has been read the row sequence is over.        *)
(***************************************************************************)
\* The generator was ended by an exception of the filter that line 73 caught.
EndedByFilter == data = "finished" /\ ~done /\ error = "none"

\* The lines consumed whose outcome was not a row: 1 for the closing tag,
\* 1 for a line that raised.
ClosingTagRead == it > FramingLines /\ path[it].text = CloseTag("sites")
RaisedOnLine == error \in { "ParseError", "ValueError" } \/ EndedByFilter

C14_SinglePassForward ==
    (pc # "NotStarted" /\ Len(path) >= FramingLines)
        => LET end == EndIndex(path)
           IN
           /\ FramingLines <= it
           /\ it <= end
           /\ it <= Len(path)
           /\ Increasing(handed)
           /\ \A k \in 1..Len(handed) :
                 FramingLines < handed[k] /\ handed[k] < end /\ handed[k] <= it
           /\ it - FramingLines
                 = Len(handed) + filtered
                     + (IF ClosingTagRead THEN 1 ELSE 0)
                     + (IF RaisedOnLine THEN 1 ELSE 0)
           /\ RaisedOnLine => (FramingLines < it /\ it < end)
           /\ ClosingTagRead => (done /\ data = "finished" /\ it = end)
           /\ \A r \in db_rows \ rows_at_start :
                 \E k \in 1..Len(stored) : r = RowOf(path[stored[k]])

C14_Witness ==
    /\ pc = "Committed"
    /\ path = Framing \o << LineB, LineEnd, LineA >>
    /\ rows_at_start = {}
    /\ it = 4
    /\ db_durable = { RowOf(LineB) }

(***************************************************************************)
(* C15.  Whenever parse_row returns, the row has exactly one entry per     *)
(* column of the descriptor, in descriptor order; the value of a column is *)
(* None exactly when its source attribute is configured as None or is      *)
(* absent from the record; otherwise it is the attribute's value, the      *)
(* integer it denotes when the storage type is of the integer family and   *)
(* the text itself otherwise.  parse_row returns unless the value of an    *)
(* attribute of an integer column is no integer literal, and then it       *)
(* raises ValueError.                                                      *)
(***************************************************************************)
\* The storage types of the integer family.
IntegerFamily(typ) == \E k \in 1..Len(typ) : typ[k] = "INTEGER"

\* The integers the attribute values denote.
IntegerOf == (<<"7">> :> 7) @@ (<<"-", "1", "2">> :> (0 - 12)) @@ (<<"0", "1">> :> 1)

\* The attribute of column i is in the record.
Present(table, attrib, i) ==
    /\ table.schema[i].attr # None
    /\ table.schema[i].attr.name \in DOMAIN attrib

C15_ParseRow ==
    parse_call # None
        => LET table == parse_call.table
               attrib == parse_call.attrib
               vals == parse_call.vals
               columns == 1..Len(table.schema)
           IN  /\ parse_call.raised = "ValueError"
                     <=> \E i \in columns :
                            /\ Present(table, attrib, i)
                            /\ IntegerFamily(table.schema[i].typ)
                            /\ attrib[table.schema[i].attr.name] \notin DOMAIN IntegerOf
               /\ parse_call.raised = "none"
                     => /\ Len(vals.items) = Len(table.schema)
                        /\ \A i \in columns :
                              /\ vals.items[i].col = table.schema[i].col
                              /\ vals.items[i].val = None <=> ~Present(table, attrib, i)
                              /\ Present(table, attrib, i)
                                    => vals.items[i].val =
                                          IF IntegerFamily(table.schema[i].typ)
                                          THEN [int |-> IntegerOf[attrib[table.schema[i].attr.name]]]
                                          ELSE [str |-> attrib[table.schema[i].attr.name]]

C15_Witness ==
    /\ parse_call # None
    /\ parse_call.table = posts
    /\ parse_call.attrib = [Id |-> <<"0", "1">>, Score |-> <<"-", "1", "2">>]
    /\ parse_call.raised = "none"
    /\ parse_call.vals.items[1] = [col |-> "id", val |-> [int |-> 1]]
    /\ parse_call.vals.items[2] = [col |-> "site_id", val |-> None]
    /\ parse_call.vals.items[6] = [col |-> "score", val |-> [int |-> 0 - 12]]
    /\ parse_call.vals.items[8] = [col |-> "body", val |-> None]

(***************************************************************************)
(* C16.  On a fatal error the load neither commits nor rolls back: when a  *)
(* load has failed the durable rows are those of its start and the table   *)
(* still holds, pending, every row it held at the start and every row the  *)
(* store accepted before the failure; and a load that commits makes        *)
(* durable every row that was pending at its start, such as the rows a     *)
(* failed load before it left.                                             *)
(***************************************************************************)
Pending == db_rows \ db_durable

C16_NoCommitNoRollbackOnFailure ==
    /\ db_durable \subseteq db_rows
    /\ pc = "Failed"
          => /\ commits = 0
             /\ db_durable = durable_at_start
             /\ LET accepted == { RowOf(path[stored[k]]) : k \in StoredFirst }
                IN  /\ db_rows = rows_at_start \cup accepted
                    /\ Pending = (rows_at_start \ durable_at_start) \cup accepted
    /\ pc = "Committed"
          => /\ rows_at_start \subseteq db_durable
             /\ Pending = {}

C16_Witness ==
    /\ pc = "Committed"
    /\ loads = 2
    /\ path = Framing \o << LineB >>
    /\ rows_at_start = { RowOf(LineA) }
    /\ durable_at_start = {}
    /\ db_durable = { RowOf(LineA), RowOf(LineB) }

(***************************************************************************)
(* C17.  When a fatal error of the store is reported, the row printed is   *)
(* the row the generator yielded last, as the filter left it: the row of   *)
(* the last line handed over, which is no line the filter discarded; it is *)
(* None when the error comes before any row was handed over.  Every fatal  *)
(* error of the store prints once, and no other end of a load prints.      *)
(***************************************************************************)
LastHanded == handed[Len(handed)]

C17_ReportedRowIsLastHanded ==
    /\ Len(printed) <= 1
    /\ printed # << >> <=> (pc = "Failed" /\ error \in SqliteErrors)
    /\ pc # "NotStarted"
          => IF handed = << >>
             THEN last_row = None
             ELSE /\ last_row = parse_row(sites, path[LastHanded].text.attrib)
                  /\ ~Discards(filter_row, path[LastHanded])
    /\ printed # << >>
          => /\ printed[1] = last_row
             /\ handed # << >> => stored[Len(stored)] = LastHanded

C17_Witness ==
    /\ pc = "Failed"
    /\ error = "OperationalError"
    /\ filter_row = "roots_only"
    /\ path = Framing \o << LineB, LineA, LineB >>
    /\ it = 4
    /\ filtered = 1
    /\ handed = << 4 >>
    /\ printed = << parse_row(sites, LineA.text.attrib) >>

(***************************************************************************)
(* What a load makes of a file, read off the lines up to the closing tag   *)
(* alone: how it ends and the rows the table then holds.  The number of    *)
(* lines of the file, and so the total of line 47, has no part in it.      *)
(***************************************************************************)
RECURSIVE Outcome(_, _, _, _, _)
Outcome(file, i, f, ok, rows) ==
    IF i > Len(file) \/ file[i].text = CloseTag("sites")
    THEN [end |-> "Committed", rows |-> rows]
    ELSE IF Malformed(file[i]) \/ NonNumeric(file[i])
    THEN [end |-> "Failed", rows |-> rows]
    ELSE IF RaisesOn(f, file[i])
    THEN [end |-> "never", rows |-> rows]
    ELSE IF Discards(f, file[i]) \/ \E r \in rows : IdOf(r) = IdOf(RowOf(file[i]))
    THEN Outcome(file, i + 1, f, ok, rows)
    ELSE Outcome(file, i + 1, f, ok, rows \cup { RowOf(file[i]) })

\* The lines of a file up to its closing tag.
UpToClosingTag(file) == SubSeq(file, 1, DrainedAt(file))

(***************************************************************************)
(* C18.  The total handed to the progress bar is the number of lines of    *)
(* the file less 3 and is observational only: unless the store fails, how  *)
(* a load ends and the rows the table then holds are a function of the     *)
(* lines up to the closing tag, the filter, exist_ok and the rows held     *)
(* before, so they are the same for every value of the total, also when it *)
(* is not the number of records, zero or negative.                         *)
(***************************************************************************)
C18_TotalIsObservational ==
    /\ (pc # "NotStarted" /\ data \in { "active", "finished" })
          => record_count = PyInt(Len(path) - UncountedLines)
    /\ (Ended /\ error # "OperationalError" /\ Len(path) >= FramingLines)
          => [end |-> pc, rows |-> db_rows]
                = Outcome(UpToClosingTag(path), FramingLines + 1,
                          filter_row, exist_ok, rows_at_start)

C18_Witness ==
    /\ pc = "Committed"
    /\ path = Framing \o << LineA, LineB >>
    /\ record_count = PyInt(1)
    /\ Cardinality(db_rows \ rows_at_start) = 2

(***************************************************************************)
(* C19.  A file that ends without the closing tag of the table ends the    *)
(* row sequence normally: done is set when the last line has been          *)
(* consumed and not before, every record line the filter kept was handed   *)
(* to the store, and the load of a well-formed file ends committed, not    *)
(* failed, unless the store fails.                                         *)
(***************************************************************************)
NoClosingTag == Len(path) >= FramingLines /\ EndIndex(path) > Len(path)

C19_EndOfFileIsNormalEnd ==
    (pc # "NotStarted" /\ NoClosingTag)
        => /\ done => (it = Len(path) /\ data = "finished")
           /\ (data = "finished" /\ error = "none" /\ filter_row # "check_parent")
                 => done
           /\ (Ended /\ error # "OperationalError" /\ WellFormed(path))
                 => /\ pc = "Committed"
                    /\ error = "none"
                    /\ done
                    /\ it = Len(path)
                    /\ Range(stored)
                          = { i \in (FramingLines + 1)..Len(path) :
                                ~Discards(filter_row, path[i]) }

C19_Witness ==
    /\ pc = "Committed"
    /\ exist_ok
    /\ filter_row = "None"
    /\ path = Framing \o << LineB, LineA >>
    /\ done
    /\ stored = << 3, 4 >>
    /\ db_durable = { RowOf(LineA), RowOf(LineB) }

====
